---- MODULE Spec2Model ----
(***************************************************************************)
(* Model of clink's key binder (clink/lib/src/binder.cpp): the chord       *)
(* translator, the bump-allocated node pool, the group list threaded       *)
(* through the pool, the binding trie and the backend registry.            *)
(*                                                                         *)
(* Characters are bytes 0..255.  A chord is the sequence of bytes of a C   *)
(* string without its terminating NUL.                                     *)
(***************************************************************************)
EXTENDS Integers, Sequences, FiniteSets, TLC

----------------------------------------------------------------------------
(* Characters the translator distinguishes. *)

NUL       == 0
BACKSLASH == 92
CARET     == 94
CH_M      == 77
CH_C      == 67
DASH      == 45
CH_e      == 101
CH_t      == 116
CH_n      == 110
CH_r      == 114
CH_0      == 48
ESC       == 27
TAB       == 9
LF        == 10
CR        == 13
CH_a      == 97
CH_b      == 98
CH_x      == 120

(* A byte whose high bit is set (negative as a signed char). *)
HighByte  == 128 + 127

(* c & 0x1f on a byte. *)
Mask1f(c) == c % 32

(* The size of bind's translation buffer, char translated[64]. *)
TranslatedSize == 64

\* The character at position p (1-based); the string's terminator past its end.
CharAt(chord, p) == IF p >= 1 /\ p <= Len(chord) THEN chord[p] ELSE NUL

----------------------------------------------------------------------------
(* translate_chord.  One iteration of the for loop is a "unit": what it     *)
(* writes to out[i] (write/byte), where chord points after the body (np,    *)
(* before the loop's ++chord), whether it returned false (fail) and whether *)
(* it set i = SIZE (stop).                                                  *)

Unit(w, b, np, f, s) == [write |-> w, byte |-> b, np |-> np, fail |-> f, stop |-> s]

\* binder.cpp 24-28: a character other than '\\' and '^' is copied.
unit_literal(chord, p) == Unit(TRUE, CharAt(chord, p), p, FALSE, FALSE)

\* binder.cpp 30-34: at '^', out[i] = *chord & 0x1f; chord is not advanced.
unit_caret(chord, p) == Unit(TRUE, Mask1f(CharAt(chord, p)), p, FALSE, FALSE)

\* binder.cpp 39-41: case '\0': i = SIZE; continue.  p is the position after '\'.
unit_trailing(chord, p) == Unit(FALSE, NUL, p, FALSE, TRUE)

\* A slip of case 'M': the character after "\M-" is skipped as well.
unit_meta_skips_next(chord, p) ==
    IF CharAt(chord, p + 1) # DASH
    THEN Unit(FALSE, NUL, p, TRUE, FALSE)
    ELSE Unit(TRUE, ESC, p + 2, FALSE, FALSE)

\* binder.cpp 43-49: case 'M': if (chord[1] != '-') return false; ++chord; out[i] = '\x1b'.
unit_meta(chord, p) ==
    IF CharAt(chord, p + 1) # DASH
    THEN Unit(FALSE, NUL, p, TRUE, FALSE)
    ELSE Unit(TRUE, ESC, p + 1, FALSE, FALSE)

\* A slip of case 'C': the '-' is not asked for.
unit_ctrl_unchecked(chord, p) ==
    Unit(TRUE, Mask1f(CharAt(chord, p + 1)), p + 1, FALSE, FALSE)

\* binder.cpp 51-57: case 'C': if (chord[1] != '-') return false; ++chord;
\* out[i] = *chord & 0x1f.
unit_ctrl(chord, p) ==
    IF CharAt(chord, p + 1) # DASH
    THEN Unit(FALSE, NUL, p, TRUE, FALSE)
    ELSE Unit(TRUE, Mask1f(CharAt(chord, p + 1)), p + 1, FALSE, FALSE)

\* binder.cpp 60-65: the convenience escapes and the default case.
unit_escape(chord, p) ==
    LET c == CharAt(chord, p) IN
    Unit(TRUE,
         CASE c = CH_e -> ESC
           [] c = CH_t -> TAB
           [] c = CH_n -> LF
           [] c = CH_r -> CR
           [] c = CH_0 -> NUL
           [] OTHER    -> c,
         p, FALSE, FALSE)

\* binder.cpp 24-66: the body of the for loop, chord pointing at position p.
translate_unit(chord, p) ==
    LET c == CharAt(chord, p) IN
    IF c # BACKSLASH /\ c # CARET THEN unit_literal(chord, p)
    ELSE IF c = CARET THEN unit_caret(chord, p)
    ELSE LET q == p + 1          \* ++chord
             d == CharAt(chord, q) IN
         CASE d = NUL  -> unit_trailing(chord, q)
           [] d = CH_M -> unit_meta(chord, q)
           [] d = CH_C -> unit_ctrl(chord, q)
           [] OTHER    -> unit_escape(chord, q)

(* The for loop, then out[i] = '\0'; return true.  out holds the bytes     *)
(* written at out[0..Len(out)-1]; term is the index the terminator is      *)
(* written at (the final value of i).                                      *)
RECURSIVE translate_loop(_, _, _, _, _)
translate_loop(chord, p, i, out, SIZE) ==
    IF ~(i < SIZE - 1 /\ CharAt(chord, p) # NUL)
    THEN [ok |-> TRUE, out |-> out, term |-> i]
    ELSE LET u == translate_unit(chord, p) IN
         IF u.fail THEN [ok |-> FALSE, out |-> out, term |-> i]
         ELSE translate_loop(chord, u.np + 1,
                             (IF u.stop THEN SIZE ELSE i) + 1,
                             IF u.write THEN Append(out, u.byte) ELSE out,
                             SIZE)

translate_chord(chord, SIZE) == translate_loop(chord, 1, 0, <<>>, SIZE)

----------------------------------------------------------------------------
(* The node pool.  m_nodes has Capacity slots; a slot is read as a trie    *)
(* node (key, child, next, bound, depth, backend, id) or as a group-list   *)
(* node (hash, is_group, next).                                            *)

Capacity        == 6
BackendCapacity == 2

Node(g, nx, be, ch, d, b, k, id, h) ==
    [is_group |-> g, next |-> nx, backend |-> be, child |-> ch, depth |-> d,
     bound |-> b, key |-> k, id |-> id, hash |-> h]

\* node x = {}
ZeroNode == Node(0, 0, 0, 0, 0, 0, 0, 0, 0)

\* A slip of alloc_nodes: the cursor moves only when the nodes are there.
alloc_nodes_checkfirst(cursor, count) ==
    IF cursor + count < Capacity
    THEN [cursor |-> cursor + count, index |-> cursor]
    ELSE [cursor |-> cursor, index |-> -1]

\* binder.cpp 296-300: m_next_node += count; the index, or -1.  The cursor is
\* an unsigned int; the calls modelled stop (MaxCalls) long before it
\* can wrap.
alloc_nodes(cursor, count) ==
    LET c == cursor + count IN
    [cursor |-> c, index |-> IF c < Capacity THEN c - count ELSE -1]

\* core/str_hash.h, not part of the sources at hand: a hash of the name, under
\* which "vi" and "vim" stand for two names that collide.
str_hash(name) ==
    CASE name = "vi"    -> 11
      [] name = "vim"   -> 11
      [] name = "emacs" -> 12
      [] OTHER          -> 13

NullName == "<nullptr>"

\* binder.cpp 94-104: the scan of the group list.
RECURSIVE get_group_scan(_, _, _)
get_group_scan(nodes, hash, index) ==
    IF index = 0 THEN -1
    ELSE IF nodes[index].hash = hash THEN index
    ELSE get_group_scan(nodes, hash, nodes[index].next)

\* binder.cpp 87-105
get_group(nodes, name) ==
    IF name = NullName \/ name = "" THEN 1
    ELSE get_group_scan(nodes, str_hash(name), nodes[0].next)

\* binder.cpp 108-128
create_group(nodes, cursor, name) ==
    LET a     == alloc_nodes(cursor, 2)
        index == a.index
    IN  IF index < 0
        THEN [nodes |-> nodes, cursor |-> a.cursor, result |-> -1,
              allocs |-> 1, alloc_fail |-> TRUE]
        ELSE LET group == [nodes[index] EXCEPT !.hash = str_hash(name),
                                               !.is_group = 1,
                                               !.next = nodes[0].next]
                 n1 == [nodes EXCEPT ![index] = group]
                 n2 == [n1 EXCEPT ![0].next = index]
                 n3 == [n2 EXCEPT ![index + 1] = ZeroNode]
             IN  [nodes |-> n3, cursor |-> a.cursor, result |-> index + 1,
                  allocs |-> 1, alloc_fail |-> FALSE]

----------------------------------------------------------------------------
(* The trie. *)

\* binder.cpp 212-217: the loop of find_child from index on.
RECURSIVE find_child_from(_, _, _, _)
find_child_from(nodes, parent, key, index) ==
    IF ~(index > parent) THEN 0
    ELSE IF nodes[index].key = key THEN index
    ELSE find_child_from(nodes, parent, key, nodes[index].next)

\* binder.cpp 207-220
find_child(nodes, parent, key) ==
    find_child_from(nodes, parent, key, nodes[parent].child)

\* binder.cpp 250-256
RECURSIVE find_tail(_, _)
find_tail(nodes, head) ==
    IF nodes[head].next > head THEN find_tail(nodes, nodes[head].next) ELSE head

\* What add_child, append and insert_child hand back: the pool, the cursor,
\* the index returned, and the calls of alloc_nodes made (and whether one
\* returned -1).
Grown(nodes, cursor, index, allocs, fail) ==
    [nodes |-> nodes, cursor |-> cursor, index |-> index,
     allocs |-> allocs, alloc_fail |-> fail]

\* A slip of add_child: the new node always becomes the first child.
add_child_relinks(nodes, cursor, parent, key) ==
    LET a     == alloc_nodes(cursor, 1)
        child == a.index
    IN  IF child < 0 THEN Grown(nodes, a.cursor, 0, 1, TRUE)
        ELSE LET addee == [ZeroNode EXCEPT !.key = key, !.next = parent] IN
             Grown([nodes EXCEPT ![parent].child = child, ![child] = addee],
                   a.cursor, child, 1, FALSE)

\* binder.cpp 223-247
add_child(nodes, cursor, parent, key) ==
    LET a     == alloc_nodes(cursor, 1)
        child == a.index
    IN  IF child < 0 THEN Grown(nodes, a.cursor, 0, 1, TRUE)
        ELSE LET addee == [ZeroNode EXCEPT !.key = key, !.next = parent]
                 current_child == nodes[parent].child
                 linked ==
                    IF current_child < parent
                    THEN [nodes EXCEPT ![parent].child = child]
                    ELSE [nodes EXCEPT ![find_tail(nodes, current_child)].next = child]
             IN  Grown([linked EXCEPT ![child] = addee], a.cursor, child, 1, FALSE)

\* binder.cpp 198-204
insert_child(nodes, cursor, parent, key) ==
    LET child == find_child(nodes, parent, key) IN
    IF child # 0 THEN Grown(nodes, cursor, child, 0, FALSE)
    ELSE add_child(nodes, cursor, parent, key)

\* A slip of append: the bindee itself is handed back, no node is added.
append_in_place(nodes, cursor, head, key) == Grown(nodes, cursor, head, 0, FALSE)

\* A slip of append: the new node is linked right after head, not after the
\* tail of head's chain.
append_after_head(nodes, cursor, head, key) ==
    LET a     == alloc_nodes(cursor, 1)
        index == a.index
    IN  IF index < 0 THEN Grown(nodes, a.cursor, 0, 1, TRUE)
        ELSE LET addee == [ZeroNode EXCEPT !.key = key, !.next = nodes[head].next]
                 linked == [nodes EXCEPT ![head].next = index]
             IN  Grown([linked EXCEPT ![index] = addee], a.cursor, index, 1, FALSE)

\* binder.cpp 259-274
append(nodes, cursor, head, key) ==
    LET a     == alloc_nodes(cursor, 1)
        index == a.index
    IN  IF index < 0 THEN Grown(nodes, a.cursor, 0, 1, TRUE)
        ELSE LET tail  == find_tail(nodes, head)
                 addee == [ZeroNode EXCEPT !.key = key, !.next = nodes[tail].next]
                 linked == [nodes EXCEPT ![tail].next = index]
             IN  Grown([linked EXCEPT ![index] = addee], a.cursor, index, 1, FALSE)

\* A slip of add_backend: the backend is appended without the scan for it.
add_backend_unscanned(backends, backend) ==
    IF Len(backends) < BackendCapacity
    THEN [backends |-> Append(backends, backend), index |-> Len(backends)]
    ELSE [backends |-> backends, index |-> -1]

\* binder.cpp 303-316: the index of the backend in the registry, appended if
\* it is not there; -1 when the registry is full.
add_backend(backends, backend) ==
    IF \E i \in 1..Len(backends) : backends[i] = backend
    THEN [backends |-> backends,
          index |-> (CHOOSE i \in 1..Len(backends) :
                        /\ backends[i] = backend
                        /\ \A j \in 1..(i - 1) : backends[j] # backend) - 1]
    ELSE IF Len(backends) < BackendCapacity
    THEN [backends |-> Append(backends, backend), index |-> Len(backends)]
    ELSE [backends |-> backends, index |-> -1]

----------------------------------------------------------------------------
(* binder::bind *)

\* A slip of the validation: no byte is looked at.
no_high_bit_check(chord) == FALSE

\* binder.cpp 141-144: a raw chord byte that is negative as a char.
has_high_bit(chord) == \E p \in 1..Len(chord) : chord[p] >= 128

\* The C string bind reads out of translated[] after translate_chord: the
\* bytes before the first NUL.  Where the terminator was written outside the
\* buffer and no NUL was written inside it, the bytes after the written ones
\* are uninitialised: tail stands for what is read there.
RECURSIVE until_nul(_)
until_nul(bytes) ==
    IF bytes = <<>> \/ Head(bytes) = NUL THEN <<>>
    ELSE <<Head(bytes)>> \o until_nul(Tail(bytes))

unterminated(t) ==
    /\ t.term # Len(t.out)
    /\ \A p \in 1..Len(t.out) : t.out[p] # NUL

translated_keys(t, tail) ==
    IF unterminated(t) THEN t.out \o tail ELSE until_nul(t.out)

\* binder.cpp 159-163: the walk from the group's root, one key at a time.
RECURSIVE bind_walk(_, _, _, _, _, _)
bind_walk(nodes, cursor, head, keys, j, allocs) ==
    IF j > Len(keys)
    THEN [g |-> Grown(nodes, cursor, head, allocs, FALSE), returned |-> FALSE]
    ELSE LET g == insert_child(nodes, cursor, head, keys[j]) IN
         IF g.index = 0
         THEN [g |-> Grown(g.nodes, g.cursor, 0, allocs + g.allocs, g.alloc_fail),
               returned |-> TRUE]
         ELSE bind_walk(g.nodes, g.cursor, g.index, keys, j + 1, allocs + g.allocs)

\* binder.cpp 172-180: the scan for a duplicate of the bind, check starting
\* at head and bindee at the node head.
RECURSIVE duplicate_scan(_, _, _, _, _, _, _)
duplicate_scan(nodes, head, check, bindee, key, backend_index, id) ==
    IF ~(check > head) THEN FALSE
    ELSE IF /\ nodes[bindee].key = key
            /\ nodes[bindee].backend = backend_index
            /\ nodes[bindee].id = id
         THEN TRUE
         ELSE duplicate_scan(nodes, head, nodes[bindee].next, nodes[bindee].next,
                             key, backend_index, id)

BindResult(ok, nodes, cursor, backends, node, keys, allocs, fail) ==
    [ok |-> ok, nodes |-> nodes, cursor |-> cursor, backends |-> backends,
     node |-> node, keys |-> keys, allocs |-> allocs, alloc_fail |-> fail]

\* node::depth, declared in binder.h, which is not among the sources at hand:
\* the field holds the chord length stored into it.
depth_field(depth) == depth

\* A slip of the commit: the depth is not stored.
commit_node_without_depth(nodes, head, backend_index, depth, id) ==
    [nodes EXCEPT ![head].backend = backend_index,
                  ![head].bound = 1,
                  ![head].id = id]

\* binder.cpp 188-192: the commit onto the node head.
commit_node(nodes, head, backend_index, depth, id) ==
    [nodes EXCEPT ![head].backend = backend_index,
                  ![head].bound = 1,
                  ![head].depth = depth_field(depth),
                  ![head].id = id]

\* binder.cpp 185-194: false for the node 0, else the commit onto the node.
bind_finish(a, allocs, b, keys, id) ==
    IF a.index = 0
    THEN BindResult(FALSE, a.nodes, a.cursor, b.backends, -1, keys,
                    allocs + a.allocs, a.alloc_fail)
    ELSE BindResult(TRUE, commit_node(a.nodes, a.index, b.index, Len(keys), id),
                    a.cursor, b.backends, a.index, keys, allocs + a.allocs, FALSE)

\* binder.cpp 165-183: at the node the walk ended at (w.index): where it is
\* bound, the duplicate scan and append of a node with the key --chord
\* points at.
bind_at(w, b, keys, last_key, id) ==
    IF w.nodes[w.index].bound = 1
    THEN IF duplicate_scan(w.nodes, w.index, w.index, w.index, last_key, b.index, id)
         THEN BindResult(TRUE, w.nodes, w.cursor, b.backends, -1, keys, w.allocs, FALSE)
         ELSE bind_finish(append(w.nodes, w.cursor, w.index, last_key),
                          w.allocs, b, keys, id)
    ELSE bind_finish(Grown(w.nodes, w.cursor, w.index, 0, FALSE), w.allocs, b, keys, id)

\* A slip of the walk: it starts at the default group's root whatever the
\* group is.
bind_keys_default_group(nodes, cursor, group, b, keys, id, before) ==
    LET walk == bind_walk(nodes, cursor, 1, keys, 1, 0) IN
    IF walk.returned
    THEN BindResult(FALSE, walk.g.nodes, walk.g.cursor, b.backends, -1, keys,
                    walk.g.allocs, walk.g.alloc_fail)
    ELSE bind_at(walk.g, b, keys,
                 IF keys = <<>> THEN before ELSE keys[Len(keys)], id)

\* binder.cpp 158-163: the walk, false as soon as insert_child gives 0.
bind_keys(nodes, cursor, group, b, keys, id, before) ==
    LET walk == bind_walk(nodes, cursor, group, keys, 1, 0) IN
    IF walk.returned
    THEN BindResult(FALSE, walk.g.nodes, walk.g.cursor, b.backends, -1, keys,
                    walk.g.allocs, walk.g.alloc_fail)
    ELSE bind_at(walk.g, b, keys,
                 IF keys = <<>> THEN before ELSE keys[Len(keys)], id)

\* binder.cpp 146-156: translation, then the backend's registration.
bind_translated(nodes, cursor, backends, group, t, b, id, tail, before) ==
    IF ~t.ok \/ b.index < 0
    THEN BindResult(FALSE, nodes, cursor, backends, -1, <<>>, 0, FALSE)
    ELSE bind_keys(nodes, cursor, group, b, translated_keys(t, tail), id, before)

\* binder.cpp 131-195.  tail and before are what the reads of uninitialised
\* memory yield: the bytes after an unterminated translation, and the byte
\* before translated[0] that --chord points at when the translation is empty.
bind(nodes, cursor, backends, group, chord, backend, id, tail, before) ==
    IF group >= Capacity \/ has_high_bit(chord)
    THEN BindResult(FALSE, nodes, cursor, backends, -1, <<>>, 0, FALSE)
    ELSE bind_translated(nodes, cursor, backends, group,
                         translate_chord(chord, TranslatedSize),
                         add_backend(backends, backend), id, tail, before)

----------------------------------------------------------------------------
(* The binder as a state machine: its fields, and what the calls made so   *)
(* far were and returned.                                                  *)

VARIABLES
    m_nodes,       \* node m_nodes[Capacity]
    m_next_node,   \* the allocation cursor
    m_backends,    \* the backend registry
    created,       \* what create_group stored and returned, latest first
    alloc_failed,  \* alloc_nodes has returned -1 at least once
    calls,         \* the number of calls made
    last,          \* the last call, its arguments and what it returned
    tc,            \* the chord handed to translate_chord on its own
    tr             \* what translate_chord made of tc

vars == <<m_nodes, m_next_node, m_backends, created, alloc_failed, calls, last, tc, tr>>

\* The trie roots handed out: 1 and the indices create_group returned.
roots == {1} \cup { created[i].root : i \in 1..Len(created) }

MaxCalls    == 3
MaxChordLen == 5

Backends == {"H1", "H2"}
Ids      == {1, 2}
Names    == {"vi", "vim", "emacs"}
Lookups  == Names \cup {"", NullName, "missing"}
Asked    == {"vi", ""}

\* The chords bind is called with.
Chords ==
    { <<CH_a>>, <<CH_a, CH_b>>, <<CH_b>>,
      <<BACKSLASH, CH_M, CH_x>>,
      <<CH_a, HighByte>>,
      <<CH_a, BACKSLASH>>,
      <<>> }

\* What a read of uninitialised memory may yield.
GarbageTails  == { <<>>, <<CH_b>> }
GarbageBytes  == { NUL, CH_b }

NoCall ==
    [op |-> "none", group |-> 0, chord |-> <<>>, backend |-> "", id |-> 0,
     name |-> "", ok |-> FALSE, index |-> 0, node |-> -1, keys |-> <<>>,
     allocs |-> 0, alloc_fail |-> FALSE]

NotRun == [done |-> FALSE, ok |-> FALSE, out |-> <<>>, term |-> 0]

\* binder.cpp 76-84: the constructor.
InitNodes ==
    [i \in 0..(Capacity - 1) |-> IF i = 0 THEN [ZeroNode EXCEPT !.is_group = 1]
                                          ELSE ZeroNode]

Init ==
    /\ m_nodes = InitNodes
    /\ m_next_node = 2
    /\ m_backends = <<>>
    /\ created = <<>>
    /\ alloc_failed = FALSE
    /\ calls = 0
    /\ last = NoCall
    /\ tc = <<>>
    /\ tr = NotRun

\* The calls modelled: at most MaxCalls of them.
CallsLeft == calls < MaxCalls

\* A backend beyond those the registry has room for.
SpareBackend == "H3"

\* The calls of bind made: on a root handed out, every chord with every
\* backend and id, and one chord with the spare backend; on an index outside
\* the pool, one call.
BindCalls ==
    { <<group, chord, backend, id>> :
        group \in roots, chord \in Chords, backend \in Backends, id \in Ids }
    \cup { <<group, <<CH_a>>, SpareBackend, 1>> : group \in roots }
    \cup { <<Capacity, <<CH_a>>, "H1", 1>> }

\* What the reads of uninitialised memory may yield in a call: the bytes after
\* an unterminated translation, the byte before an empty one.
TailsOf(chord) ==
    LET t == translate_chord(chord, TranslatedSize) IN
    IF t.ok /\ unterminated(t) THEN GarbageTails ELSE { <<>> }

BeforesOf(chord, tail) ==
    LET t == translate_chord(chord, TranslatedSize) IN
    IF t.ok /\ translated_keys(t, tail) = <<>> THEN GarbageBytes ELSE { NUL }

Bind ==
    /\ CallsLeft
    /\ calls' = calls + 1
    /\ \E call \in BindCalls :
       \E tail \in TailsOf(call[2]) :
       \E before \in BeforesOf(call[2], tail) :
        LET group   == call[1]
            chord   == call[2]
            backend == call[3]
            id      == call[4]
            r == bind(m_nodes, m_next_node, m_backends, group, chord, backend, id,
                      tail, before)
        IN  /\ m_nodes' = r.nodes
            /\ m_next_node' = r.cursor
            /\ m_backends' = r.backends
            /\ alloc_failed' = (alloc_failed \/ r.alloc_fail)
            /\ last' = [NoCall EXCEPT !.op = "bind", !.group = group, !.chord = chord,
                                      !.backend = backend, !.id = id, !.ok = r.ok,
                                      !.node = r.node, !.keys = r.keys,
                                      !.allocs = r.allocs, !.alloc_fail = r.alloc_fail]
    /\ UNCHANGED <<created, tc, tr>>

CreateGroup ==
    /\ CallsLeft
    /\ calls' = calls + 1
    /\ \E name \in Names :
        LET r == create_group(m_nodes, m_next_node, name)
        IN  /\ m_nodes' = r.nodes
            /\ m_next_node' = r.cursor
            /\ created' = IF r.result >= 0
                          THEN <<[hash |-> str_hash(name), root |-> r.result]>> \o created
                          ELSE created
            /\ alloc_failed' = (alloc_failed \/ r.alloc_fail)
            /\ last' = [NoCall EXCEPT !.op = "create_group", !.name = name,
                                      !.ok = (r.result >= 0), !.index = r.result,
                                      !.allocs = r.allocs, !.alloc_fail = r.alloc_fail]
    /\ UNCHANGED <<m_backends, tc, tr>>

GetGroup ==
    /\ CallsLeft
    /\ calls' = calls + 1
    /\ \E name \in Asked :
        last' = [NoCall EXCEPT !.op = "get_group", !.name = name,
                               !.index = get_group(m_nodes, name),
                               !.ok = (get_group(m_nodes, name) >= 0)]
    /\ UNCHANGED <<m_nodes, m_next_node, m_backends, created, alloc_failed, tc, tr>>

Next == Bind \/ CreateGroup \/ GetGroup

Spec == Init /\ [][Next]_vars

----------------------------------------------------------------------------
(* The binder called with the list's sentinel as a group as well: bind      *)
(* takes every index below Capacity (binder.cpp 138).  The indices bound on *)
(* are 0 and the roots handed out: what a group-list node or a node never   *)
(* allocated holds when read as a trie node depends on the layout binder.h  *)
(* declares and on memory never written.                                    *)

GroupChords == { <<CH_a>>, <<CH_a, CH_b>> }

GroupBindCalls ==
    { <<group, chord, backend, id>> :
        group \in {0} \cup roots, chord \in GroupChords,
        backend \in Backends, id \in Ids }

GBind ==
    /\ CallsLeft
    /\ calls' = calls + 1
    /\ \E call \in GroupBindCalls :
        LET group   == call[1]
            chord   == call[2]
            backend == call[3]
            id      == call[4]
            r == bind(m_nodes, m_next_node, m_backends, group, chord, backend, id,
                      <<>>, NUL)
        IN  /\ m_nodes' = r.nodes
            /\ m_next_node' = r.cursor
            /\ m_backends' = r.backends
            /\ alloc_failed' = (alloc_failed \/ r.alloc_fail)
            /\ last' = [NoCall EXCEPT !.op = "bind", !.group = group, !.chord = chord,
                                      !.backend = backend, !.id = id, !.ok = r.ok,
                                      !.node = r.node, !.keys = r.keys,
                                      !.allocs = r.allocs, !.alloc_fail = r.alloc_fail]
    /\ UNCHANGED <<created, tc, tr>>

GNext == GBind \/ CreateGroup

SpecG == Init /\ [][GNext]_vars

----------------------------------------------------------------------------
(* translate_chord on its own, over every chord of a small alphabet. *)

TAlphabet == {BACKSLASH, CARET, CH_M, CH_C, DASH, CH_e, CH_x}

RECURSIVE SeqsUpTo(_, _)
SeqsUpTo(S, n) ==
    IF n = 0 THEN { <<>> }
    ELSE LET shorter == SeqsUpTo(S, n - 1) IN
         shorter \cup { Append(q, c) : q \in shorter, c \in S }

TChords == SeqsUpTo(TAlphabet, MaxChordLen)

TInit ==
    /\ m_nodes = InitNodes
    /\ m_next_node = 2
    /\ m_backends = <<>>
    /\ created = <<>>
    /\ alloc_failed = FALSE
    /\ calls = 0
    /\ last = NoCall
    /\ tc \in TChords
    /\ tr = NotRun

Translate ==
    /\ ~tr.done
    /\ LET t == translate_chord(tc, TranslatedSize) IN
       tr' = [done |-> TRUE, ok |-> t.ok, out |-> t.out, term |-> t.term]
    /\ UNCHANGED <<m_nodes, m_next_node, m_backends, created, alloc_failed, calls, last, tc>>

\* bind of the chord on the binder as constructed, after its translation.
TBind ==
    /\ tr.done
    /\ last.op = "none"
    /\ \E tail \in TailsOf(tc) :
       \E before \in BeforesOf(tc, tail) :
        LET backend == "H1"
            id      == 1
            r == bind(m_nodes, m_next_node, m_backends, 1, tc, backend, id, tail, before)
        IN  /\ m_nodes' = r.nodes
            /\ m_next_node' = r.cursor
            /\ m_backends' = r.backends
            /\ alloc_failed' = (alloc_failed \/ r.alloc_fail)
            /\ last' = [NoCall EXCEPT !.op = "bind", !.group = 1, !.chord = tc,
                                      !.backend = backend, !.id = id, !.ok = r.ok,
                                      !.node = r.node, !.keys = r.keys,
                                      !.allocs = r.allocs, !.alloc_fail = r.alloc_fail]
    /\ calls' = calls + 1
    /\ UNCHANGED <<created, tc, tr>>

TNext == Translate \/ TBind

SpecT == TInit /\ [][TNext]_vars

----------------------------------------------------------------------------
(* The chord translator: claims C7 to C10, under SpecT. *)

Chord_CaretX(x)  == <<CARET, x>>
Chord_CtrlX(x)   == <<BACKSLASH, CH_C, DASH, x>>
Chord_MetaPrefix == <<BACKSLASH, CH_M, DASH>>

\* C7: for every character X the chord ^X translates, all of it being
\* consumed, to the single byte X & 0x1f, terminated at index 1.
C7_CaretControlForm ==
    \A x \in TAlphabet :
        (tr.done /\ tc = Chord_CaretX(x))
            => (tr.ok /\ tr.out = <<Mask1f(x)>> /\ tr.term = 1)

\* C8: for every character X the chord \C-X translates, all four characters
\* being consumed, to the single byte X & 0x1f, terminated at index 1.
C8_BackslashControlForm ==
    \A x \in TAlphabet :
        (tr.done /\ tc = Chord_CtrlX(x))
            => (tr.ok /\ tr.out = <<Mask1f(x)>> /\ tr.term = 1)

\* C9: \M- emits ESC and the rest of the chord is translated as it would be
\* on its own: translation of \M- followed by R succeeds exactly when that of
\* R does and then yields ESC followed by the bytes of R; \M-x yields
\* {0x1b, 'x'} and \M-\e yields {0x1b, 0x1b}.
HasMetaPrefix(chord) ==
    Len(chord) >= 3 /\ SubSeq(chord, 1, 3) = Chord_MetaPrefix

C9_MetaForm ==
    /\ (tr.done /\ HasMetaPrefix(tc)) =>
          LET rest == translate_chord(SubSeq(tc, 4, Len(tc)), TranslatedSize - 1) IN
          /\ tr.ok = rest.ok
          /\ tr.ok => tr.out = <<ESC>> \o rest.out
    /\ (tr.done /\ tc = Chord_MetaPrefix \o <<CH_x>>)
          => (tr.ok /\ tr.out = <<ESC, CH_x>> /\ tr.term = 2)
    /\ (tr.done /\ tc = Chord_MetaPrefix \o <<BACKSLASH, CH_e>>)
          => (tr.ok /\ tr.out = <<ESC, ESC>> /\ tr.term = 2)

C9_Witness ==
    /\ tr.done
    /\ tc = Chord_MetaPrefix \o <<BACKSLASH, CH_e>>
    /\ tr.out = <<ESC, ESC>>

\* C10: translate_chord fails exactly when the chord holds a \M or \C escape
\* that no '-' follows, an escape starting at a backslash that an even number
\* of backslashes precede; and bind of such a chord returns false, the
\* registry, the cursor and the pool being as they were.  (The chords are
\* shorter than the buffer: all of each is processed.)
RECURSIVE BackslashesBefore(_, _)
BackslashesBefore(chord, p) ==
    IF p > 1 /\ chord[p - 1] = BACKSLASH
    THEN 1 + BackslashesBefore(chord, p - 1)
    ELSE 0

MalformedAt(chord, p) ==
    /\ chord[p] = BACKSLASH
    /\ BackslashesBefore(chord, p) % 2 = 0
    /\ CharAt(chord, p + 1) \in {CH_M, CH_C}
    /\ CharAt(chord, p + 2) # DASH

Malformed(chord) == \E p \in 1..Len(chord) : MalformedAt(chord, p)

C10_MalformedOnlyFailure ==
    /\ tr.done => (tr.ok <=> ~Malformed(tc))
    /\ (last.op = "bind" /\ Malformed(last.chord)) =>
          /\ ~last.ok
          /\ m_backends = <<>>
          /\ m_next_node = 2
          /\ m_nodes = InitNodes

C10_Witness ==
    /\ last.op = "bind"
    /\ last.chord = <<CH_x, BACKSLASH, CH_C, CH_x>>
    /\ ~tr.ok
    /\ ~last.ok

\* C11: a chord P followed by one final backslash, one that an even number
\* of backslashes precede, translates where P does, to the bytes P translates
\* to, the terminator being written right after them.
LoneTrailing(chord) ==
    /\ Len(chord) >= 1
    /\ chord[Len(chord)] = BACKSLASH
    /\ BackslashesBefore(chord, Len(chord)) % 2 = 0

C11_TrailingBackslashTruncates ==
    (tr.done /\ LoneTrailing(tc)) =>
        LET P == translate_chord(SubSeq(tc, 1, Len(tc) - 1), TranslatedSize) IN
        P.ok => ( /\ tr.ok
                  /\ tr.out = P.out
                  /\ tr.term = Len(P.out) )

\* C18: translate_chord writes inside out[0..SIZE-1] only: it produces at
\* most SIZE-1 bytes, and where it returns true the terminator is written at
\* an index of the buffer.
C18_OutputInsideBuffer ==
    tr.done =>
        /\ Len(tr.out) <= TranslatedSize - 1
        /\ tr.ok => tr.term \in 0..(TranslatedSize - 1)

----------------------------------------------------------------------------
(* The binder: claims C1 to C6, under Spec. *)

\* The nodes a walk from node n visits: first children and siblings, a link
\* being followed while it leads to a greater index.
RECURSIVE ReachFrom(_, _)
ReachFrom(nodes, n) ==
    {n}
    \cup (IF nodes[n].child > n /\ nodes[n].child < Capacity
          THEN ReachFrom(nodes, nodes[n].child) ELSE {})
    \cup (IF nodes[n].next > n /\ nodes[n].next < Capacity
          THEN ReachFrom(nodes, nodes[n].next) ELSE {})

\* The siblings after node n in its chain, n included.
RECURSIVE ChainFrom(_, _)
ChainFrom(nodes, n) ==
    {n} \cup (IF nodes[n].next > n /\ nodes[n].next < Capacity
              THEN ChainFrom(nodes, nodes[n].next) ELSE {})

\* The first node with the key among the children of parent, 0 if none.
ChildWithKey(nodes, parent, key) ==
    LET first == nodes[parent].child
        them  == IF first > parent THEN ChainFrom(nodes, first) ELSE {}
        hits  == { n \in them : nodes[n].key = key }
    IN  IF hits = {} THEN 0 ELSE CHOOSE n \in hits : \A m \in hits : n <= m

\* The node the keys lead to from the root, 0 if the path is not there.
RECURSIVE PathNode(_, _, _)
PathNode(nodes, root, keys) ==
    IF keys = <<>> THEN root
    ELSE LET c == ChildWithKey(nodes, root, Head(keys)) IN
         IF c = 0 THEN 0 ELSE PathNode(nodes, c, Tail(keys))

\* The keys a chord stands for when its translation ends inside the buffer;
\* <<>> for a chord bind rejects or whose translation is not terminated.
KeysOf(chord) ==
    LET t == translate_chord(chord, TranslatedSize) IN
    IF (\E p \in 1..Len(chord) : chord[p] >= 128) \/ ~t.ok \/ t.term # Len(t.out)
    THEN <<>>
    ELSE until_nul(t.out)

\* The backend is the registry's entry at the (0-based) index.
IsBackendAt(backends, index, backend) ==
    index + 1 \in 1..Len(backends) /\ backends[index + 1] = backend

SameBinding(n1, n2) ==
    /\ n1.bound = n2.bound
    /\ n1.key = n2.key
    /\ n1.backend = n2.backend
    /\ n1.id = n2.id
    /\ n1.depth = n2.depth

\* The call of this step is a bind of a chord of one key or more, on a root,
\* whose path ends at a node already bound.
RebindOf(old) ==
    /\ last'.op = "bind"
    /\ last'.group \in roots
    /\ KeysOf(last'.chord) # <<>>
    /\ old = PathNode(m_nodes, last'.group, KeysOf(last'.chord))
    /\ old # 0
    /\ m_nodes[old].bound = 1

\* C1: a bind repeated with the group, chord, handler and id of a bind that
\* succeeded returns true and changes neither the cursor nor any node.
C1_RebindIdempotent ==
    [][ \A old \in 0..(Capacity - 1) :
          ( /\ RebindOf(old)
            /\ IsBackendAt(m_backends, m_nodes[old].backend, last'.backend)
            /\ m_nodes[old].id = last'.id )
          => ( /\ last'.ok
               /\ m_next_node' = m_next_node
               /\ m_nodes' = m_nodes ) ]_vars

\* C2: get_group gives for a name the root create_group returned for the
\* first entry of the list with the name's hash, 1 for an empty or absent
\* name, and -1 for a hash never created.
ExpectedGroup(name) ==
    LET hits == { i \in 1..Len(created) : created[i].hash = str_hash(name) } IN
    IF name = "" \/ name = NullName THEN 1
    ELSE IF hits = {} THEN -1
    ELSE created[CHOOSE i \in hits : \A j \in hits : i <= j].root

C2_GroupLookupRoundTrip ==
    \A name \in Lookups : get_group(m_nodes, name) = ExpectedGroup(name)

\* The pool and the registry can take the bind of this step: a node is left
\* and the backend is registered or has a slot.
RoomFor(backend) ==
    /\ m_next_node + 1 < Capacity
    /\ \/ \E i \in 1..Len(m_backends) : m_backends[i] = backend
       \/ Len(m_backends) < BackendCapacity

\* C3: a bind of a chord whose path ends at a node bound with another
\* (handler, id) succeeds while a node is left, and commits onto a new node:
\* the old node keeps its binding, the new one carries the chord's last key,
\* the chord's length as depth and the (backend, id) of the call, and both
\* lie in the sibling chain of the parent, the new one after the old one.
C3_CoexistingBindings ==
    [][ \A old \in 0..(Capacity - 1) :
          ( /\ RebindOf(old)
            /\ ~( /\ IsBackendAt(m_backends, m_nodes[old].backend, last'.backend)
                  /\ m_nodes[old].id = last'.id )
            /\ RoomFor(last'.backend) )
          => LET keys   == KeysOf(last'.chord)
                 parent == PathNode(m_nodes, last'.group, SubSeq(keys, 1, Len(keys) - 1))
                 new    == last'.node
             IN  /\ last'.ok
                 /\ new \in 2..(Capacity - 1)
                 /\ new # old
                 /\ new >= m_next_node
                 /\ SameBinding(m_nodes'[old], m_nodes[old])
                 /\ m_nodes'[old].depth = Len(keys)
                 /\ m_nodes'[new].bound = 1
                 /\ m_nodes'[new].key = keys[Len(keys)]
                 /\ m_nodes'[new].depth = Len(keys)
                 /\ m_nodes'[new].id = last'.id
                 /\ IsBackendAt(m_backends', m_nodes'[new].backend, last'.backend)
                 /\ new \in ChainFrom(m_nodes', old)
                 /\ old \in ChainFrom(m_nodes', m_nodes'[parent].child)
                 /\ PathNode(m_nodes', last'.group, keys) = old ]_vars

C3_Witness ==
    /\ last.op = "bind"
    /\ last.ok
    /\ last.keys = <<CH_a, CH_b>>
    /\ last.node # PathNode(m_nodes, last.group, last.keys)
    /\ LET old == PathNode(m_nodes, last.group, last.keys) IN
       /\ old # 0
       /\ m_nodes[old].bound = 1
       /\ m_nodes[last.node].bound = 1
       /\ m_nodes[old].id # m_nodes[last.node].id
       /\ last.node \in ChainFrom(m_nodes, old)

\* C4: a call changes no bound node's key, backend, id or depth nor unbinds
\* it, and the node stays within the walk from every root it was within; and
\* every bound node is within the walk from a root.
C4_CommittedBindingsStable ==
    /\ [](\A n \in 0..(Capacity - 1) :
            m_nodes[n].bound = 1 => \E r \in roots : n \in ReachFrom(m_nodes, r))
    /\ [][ \A n \in 0..(Capacity - 1) :
             m_nodes[n].bound = 1 =>
                /\ SameBinding(m_nodes'[n], m_nodes[n])
                /\ \A r \in roots :
                      n \in ReachFrom(m_nodes, r) => n \in ReachFrom(m_nodes', r) ]_vars

C4_Witness ==
    /\ last.op = "bind"
    /\ ~last.ok
    /\ last.alloc_fail
    /\ \E n \in 2..(Capacity - 1) : m_nodes[n].bound = 1 /\ m_nodes[n].depth = 2

\* C5: a call in which alloc_nodes returns -1 fails, and once alloc_nodes
\* has returned -1 it does so in every later call that asks it for a node:
\* that call fails too, create_group with -1.
C5_ExhaustionPermanent ==
    [][ /\ last'.alloc_fail =>
              (~last'.ok /\ (last'.op = "create_group" => last'.index = -1))
        /\ (alloc_failed /\ last'.allocs > 0) =>
              (last'.alloc_fail /\ ~last'.ok /\ m_nodes' = m_nodes) ]_vars

C5_Witness ==
    /\ last.op = "bind"
    /\ last.alloc_fail
    /\ ~last.ok
    /\ m_next_node > Capacity

\* C6: a bind of a chord with a byte of 0x80 or more returns false, and the
\* cursor, every node and the registry are as before the call.
C6_HighBitRejected ==
    [][ (last'.op = "bind" /\ \E p \in 1..Len(last'.chord) : last'.chord[p] >= 128)
          => ( /\ ~last'.ok
               /\ m_next_node' = m_next_node
               /\ m_nodes' = m_nodes
               /\ m_backends' = m_backends ) ]_vars

C6_Witness ==
    /\ last.op = "bind"
    /\ last.chord = <<CH_a, HighByte>>
    /\ ~last.ok
    /\ last.group \in roots
    /\ \A i \in 1..Len(m_backends) : m_backends[i] # last.backend

\* C12: alloc_nodes(count) at cursor c gives c and moves the cursor to
\* c + count exactly when c + count is not beyond Capacity, and -1 otherwise:
\* seen at create_group, which asks for 2 nodes and returns the second, and
\* at a bind that asks once for 1 node.
C12_AllocatorContract ==
    [][ /\ last'.op = "create_group" =>
              /\ (last'.index >= 0) <=> (m_next_node + 2 <= Capacity)
              /\ last'.index >= 0 =>
                    (last'.index = m_next_node + 1 /\ m_next_node' = m_next_node + 2)
              /\ last'.index < 0 => last'.index = -1
        /\ (last'.op = "bind" /\ last'.allocs = 1) =>
              /\ ~last'.alloc_fail <=> (m_next_node + 1 <= Capacity)
              /\ ~last'.alloc_fail => m_next_node' = m_next_node + 1 ]_vars

\* C13: for every trie node p the chain from p.child along next visits
\* strictly increasing indices, each above p and below both the cursor and
\* Capacity, and ends at a node whose next is not above p.
RECURSIVE SiblingChainOK(_, _, _, _)
SiblingChainOK(nodes, cursor, p, n) ==
    /\ n > p
    /\ n < cursor
    /\ n < Capacity
    /\ nodes[n].next > p =>
          (nodes[n].next > n /\ SiblingChainOK(nodes, cursor, p, nodes[n].next))

C13_SiblingChains ==
    \A p \in 1..(Capacity - 1) :
        (m_nodes[p].is_group = 0 /\ m_nodes[p].child > p)
            => SiblingChainOK(m_nodes, m_next_node, p, m_nodes[p].child)

C13_Witness ==
    /\ last.op = "bind"
    /\ last.ok
    /\ \E p \in roots :
          /\ m_nodes[p].child > p
          /\ Cardinality(ChainFrom(m_nodes, m_nodes[p].child)) >= 3
          /\ \E n \in ChainFrom(m_nodes, m_nodes[p].child) :
                n # m_nodes[p].child /\ m_nodes[n].key = m_nodes[m_nodes[p].child].key

\* C14: every bound node's depth is the number of keys on the path from its
\* root to it (0 for a node in the root's own chain), every bound node lies
\* on such a path, and the node a bind commits gets the number of keys the
\* bind walked.
RECURSIVE DepthsBelow(_, _, _)
DepthsBelow(nodes, p, d) ==
    \A n \in (IF nodes[p].child > p THEN ChainFrom(nodes, nodes[p].child) ELSE {}) :
        /\ nodes[n].bound = 1 => nodes[n].depth = d + 1
        /\ DepthsBelow(nodes, n, d + 1)

BoundIn(nodes, r) == { n \in ReachFrom(nodes, r) : nodes[n].bound = 1 }

C15_GroupsIndependent ==
    [][ (last'.op = "bind" /\ last'.group \in roots) =>
          \A r \in roots \ {last'.group} :
             /\ ReachFrom(m_nodes', r) = ReachFrom(m_nodes, r)
             /\ \A n \in ReachFrom(m_nodes, r) : m_nodes'[n] = m_nodes[n]
             /\ BoundIn(m_nodes', r) = BoundIn(m_nodes, r) ]_vars

C15_Witness ==
    /\ last.op = "bind"
    /\ last.ok
    /\ last.group \in roots \ {1}
    /\ last.node \in ReachFrom(m_nodes, last.group)
    /\ BoundIn(m_nodes, 1) # {}
    /\ last.node \notin ReachFrom(m_nodes, 1)

\* C16: the registry never holds a backend twice; a call leaves the entries
\* it had where they were; the node a bind commits carries the registry's
\* index of the backend the bind was called with; and every bound node's
\* backend field is an index of the registry, the field not changing later.
C16_RegistryDedupAppendOnly ==
    /\ [](\A i, j \in 1..Len(m_backends) : m_backends[i] = m_backends[j] => i = j)
    /\ [](\A n \in 0..(Capacity - 1) :
            m_nodes[n].bound = 1 => m_nodes[n].backend + 1 \in 1..Len(m_backends))
    /\ [][ /\ Len(m_backends') >= Len(m_backends)
           /\ SubSeq(m_backends', 1, Len(m_backends)) = m_backends
           /\ (last'.op = "bind" /\ last'.ok /\ last'.node >= 0) =>
                 IsBackendAt(m_backends', m_nodes'[last'.node].backend, last'.backend)
           /\ \A n \in 0..(Capacity - 1) :
                 m_nodes[n].bound = 1 => m_nodes'[n].backend = m_nodes[n].backend ]_vars

C16_Witness ==
    /\ last.op = "bind"
    /\ last.ok
    /\ Len(m_backends) = 2
    /\ m_nodes[last.node].backend = 0
    /\ \E n \in 2..(Capacity - 1) : m_nodes[n].bound = 1 /\ m_nodes[n].backend = 1

\* C17: a bind that succeeds with n >= 1 keys allocates one node for each
\* position of the path that has no node yet, and one more if the path's
\* last node was there and bound and no node of its chain carries the bind's
\* (key, backend, id); the nodes of the path that were there are reused; and
\* every new node of the path is its parent's first child if the parent had
\* none, and else the last of the parent's chain, after the nodes that were
\* in it.
PrefixNode(nodes, root, keys, j) == PathNode(nodes, root, SubSeq(keys, 1, j))

\* The number of leading keys whose path is there.
ExistingLen(nodes, root, keys) ==
    CHOOSE k \in 0..Len(keys) :
        /\ PrefixNode(nodes, root, keys, k) # 0
        /\ \A j \in (k + 1)..Len(keys) : PrefixNode(nodes, root, keys, j) = 0

HasSameBinding(nodes, backends, final, key, backend, id) ==
    \E n \in ChainFrom(nodes, final) :
        /\ nodes[n].bound = 1
        /\ nodes[n].key = key
        /\ nodes[n].id = id
        /\ IsBackendAt(backends, nodes[n].backend, backend)

ExpectedAllocs(nodes, backends, root, keys, backend, id) ==
    LET n     == Len(keys)
        k     == ExistingLen(nodes, root, keys)
        final == PrefixNode(nodes, root, keys, n)
    IN  (n - k)
        + (IF /\ k = n
              /\ nodes[final].bound = 1
              /\ ~HasSameBinding(nodes, backends, final, keys[n], backend, id)
           THEN 1 ELSE 0)

LinkedAsClaimed(old, new, parent, child) ==
    IF old[parent].child > parent /\ parent < m_next_node
    THEN /\ new[parent].child = old[parent].child
         /\ ChainFrom(new, new[parent].child)
                = ChainFrom(old, old[parent].child) \cup {child}
         /\ new[child].next <= parent
    ELSE new[parent].child = child

C17_PrefixSharing ==
    [][ (last'.op = "bind" /\ last'.ok /\ last'.group \in roots /\ last'.keys # <<>>) =>
          LET keys == last'.keys
              root == last'.group
              k    == ExistingLen(m_nodes, root, keys)
              exp  == ExpectedAllocs(m_nodes, m_backends, root, keys,
                                     last'.backend, last'.id)
          IN  /\ last'.allocs = exp
              /\ m_next_node' = m_next_node + exp
              /\ \A j \in 0..k :
                    PrefixNode(m_nodes', root, keys, j) = PrefixNode(m_nodes, root, keys, j)
              /\ \A j \in (k + 1)..Len(keys) :
                    LET child  == PrefixNode(m_nodes', root, keys, j)
                        parent == PrefixNode(m_nodes', root, keys, j - 1)
                    IN  /\ child >= m_next_node
                        /\ child < m_next_node'
                        /\ LinkedAsClaimed(m_nodes, m_nodes', parent, child) ]_vars

\* C20: no root handed out (1, or an index create_group returned) is bound,
\* and every bound node has a depth of 1 or more.
C20_RootsNeverBound ==
    /\ \A r \in roots : m_nodes[r].bound = 0
    /\ \A n \in 0..(Capacity - 1) : m_nodes[n].bound = 1 => m_nodes[n].depth >= 1

----------------------------------------------------------------------------
(* The group list under binds on every index: claim C19, under SpecG. *)

\* The nodes of the group list, from the sentinel's next to a next of 0.
RECURSIVE GroupListFrom(_, _)
GroupListFrom(nodes, index) ==
    IF index = 0 THEN {}
    ELSE {index} \cup GroupListFrom(nodes, nodes[index].next)

\* C19: a bind on an index below Capacity, 0 included, leaves the sentinel's
\* next and the hash, is_group and next of every node of the group list as
\* they were, and get_group gives what it gave before for every name.
C19_BindKeepsGroupList ==
    [][ (last'.op = "bind" /\ last'.group < Capacity) =>
          /\ m_nodes'[0].next = m_nodes[0].next
          /\ \A g \in GroupListFrom(m_nodes, m_nodes[0].next) :
                /\ m_nodes'[g].hash = m_nodes[g].hash
                /\ m_nodes'[g].is_group = m_nodes[g].is_group
                /\ m_nodes'[g].next = m_nodes[g].next
          /\ \A name \in Lookups :
                get_group(m_nodes', name) = get_group(m_nodes, name) ]_vars

====
